---- MODULE Spec2Model ----
(***************************************************************************)
(* A model of the Cordra MCP adapter: the HTTP repository client           *)
(* (mcp_cordra/client.py) and the resource layer built on it               *)
(* (cordra_mcp/server.py).                                                 *)
(*                                                                         *)
(* JSON values are modelled by tokens: a JSON string is a TLA+ string of   *)
(* JStrings, a JSON object is a token of JMaps, a JSON array a token of    *)
(* JLists, a number a token of JNums and null is JNull.  A JSON object     *)
(* whose keys the code reads (a response body, a search record) is a       *)
(* record with one field per key, ABSENT marking a key that is not there.  *)
(* A message built by an f-string is the sequence of its pieces.           *)
(***************************************************************************)
EXTENDS Integers, Sequences, FiniteSets, TLC

\* ------------------------------------------------------------------ bounds
\* Longest "results" array of a search response.
MaxRecords == 2
\* Most client calls made in one behaviour.
MaxCalls == 2
MaxInFlight == 2

\* ------------------------------------------------------------- JSON values
ABSENT == "<absent>"
JNull == "<null>"
JStrings == {"Person", ""}
JNums == {"#7"}
JMaps == {"{title}", "{meta}", "{acl}", "{}"}
JListsOfMaps == {"[{payload}]"}
JListsOther == {"[strings]"}

\* dict.get(key, default) on a body whose keys are record fields.
Get(obj, key, default) == IF obj[key] = ABSENT THEN default ELSE obj[key]

\* The keys of an object body that the client reads.
ObjectKeys == {"type", "content", "metadata", "acl", "payloads"}

\* A JSON object as the set of its <<key, value>> members.
MembersOfToken(tok) ==
    CASE tok = "{title}" -> {<<"title", "Test">>}
      [] tok = "{meta}" -> {<<"created", "2023-01-01">>}
      [] tok = "{acl}" -> {<<"read", "[strings]">>}
      [] OTHER -> {}

MembersOfBody(body) == {<<k, body[k]>> : k \in {k \in ObjectKeys : body[k] # ABSENT}}

\* ------------------------------------------------------------ DigitalObject
NoObject ==
    [id |-> "", type |-> "", content |-> {}, metadata |-> JNull, acl |-> JNull,
     payloads |-> JNull]

\* A client call's result: a returned value (kind "ok") or a raised exception.
Return(obj, records) == [kind |-> "ok", obj |-> obj, records |-> records, msg |-> <<>>]
Raise(kind, msg) == [kind |-> kind, obj |-> NoObject, records |-> <<>>, msg |-> msg]

ClientKinds == {"NotFound", "AuthenticationFailed", "ClientError"}

\* The field types pydantic validates when a DigitalObject is constructed.
ValidType(v) == v \in JStrings
ValidContent(v) == v = "<body>" \/ v \in JMaps
ValidOptionalMap(v) == v = JNull \/ v \in JMaps
ValidPayloads(v) == v = JNull \/ v \in JListsOfMaps

\* DigitalObject(id=..., type=..., content=..., metadata=..., acl=..., payloads=...):
\* content is "<body>" when the whole response body is passed.
DigitalObject(id, type, content, body, metadata, acl, payloads) ==
    IF /\ ValidType(type) /\ ValidContent(content) /\ ValidOptionalMap(metadata)
       /\ ValidOptionalMap(acl) /\ ValidPayloads(payloads)
    THEN Return([id |-> id, type |-> type,
                 content |-> IF content = "<body>" THEN MembersOfBody(body)
                             ELSE MembersOfToken(content),
                 metadata |-> metadata, acl |-> acl, payloads |-> payloads], <<>>)
    ELSE Raise("ValidationError", <<"validation error for DigitalObject">>)

\* ------------------------------------------------------------------ client
\* requests.Response.ok: raise_for_status() raises for 400 <= status < 600.
ResponseOk(status_code) == ~(400 <= status_code /\ status_code < 600)

MutHandleNoNotFound(status_code, context) ==
    IF status_code \in {401, 403}
    THEN Raise("AuthenticationFailed",
               context \o <<": Authentication failed (HTTP ", ToString(status_code), ")">>)
    ELSE Raise("ClientError", context \o <<": HTTP error ", ToString(status_code)>>)

_handle_http_error(status_code, context) ==
    IF status_code = 404
    THEN Raise("NotFound", context \o <<": Resource not found">>)
    ELSE IF status_code \in {401, 403}
    THEN Raise("AuthenticationFailed",
               context \o <<": Authentication failed (HTTP ", ToString(status_code), ")">>)
    ELSE IF status_code >= 500
    THEN Raise("ClientError", context \o <<": Server error (HTTP ", ToString(status_code), ")">>)
    ELSE Raise("ClientError", context \o <<": HTTP error ", ToString(status_code)>>)

\* response.json() on a body that is not JSON raises requests' JSONDecodeError,
\* a RequestException.
JSONDecodeDetail == "Expecting value: line 1 column 1 (char 0)"

MutParseEmptyContent(object_id, body) ==
    IF body.form = "text"
    THEN Raise("ClientError", <<"Failed to retrieve object ", object_id, ": ", JSONDecodeDetail>>)
    ELSE IF body.form # "json_map"
    THEN Raise("AttributeError", <<"'list' object has no attribute 'get'">>)
    ELSE DigitalObject(object_id,
                       Get(body, "type", ""),
                       Get(body, "content", "{}"),
                       body,
                       Get(body, "metadata", JNull),
                       Get(body, "acl", JNull),
                       Get(body, "payloads", JNull))

\* get_object's body once the response is at hand and response.ok is true.
ParseObject(object_id, body) ==
    IF body.form = "text"
    THEN Raise("ClientError", <<"Failed to retrieve object ", object_id, ": ", JSONDecodeDetail>>)
    ELSE IF body.form # "json_map"
    THEN Raise("AttributeError", <<"'list' object has no attribute 'get'">>)
    ELSE DigitalObject(object_id,
                       Get(body, "type", ""),
                       Get(body, "content", "<body>"),
                       body,
                       Get(body, "metadata", JNull),
                       Get(body, "acl", JNull),
                       Get(body, "payloads", JNull))

get_object(object_id, out) ==
    IF out.raised
    THEN Raise("ClientError", <<"Failed to retrieve object ", object_id, ": ", out.detail>>)
    ELSE IF ~ResponseOk(out.status)
    THEN _handle_http_error(out.status, <<"Failed to retrieve object ", object_id>>)
    ELSE ParseObject(object_id, out.body)

MutFindDropsLast(query, out) ==
    IF out.raised
    THEN Raise("ClientError", <<"Failed to search with query '", query, "': ", out.detail>>)
    ELSE IF ~ResponseOk(out.status)
    THEN _handle_http_error(out.status, <<"Failed to search with query '", query, "'">>)
    ELSE IF out.body.form = "text"
    THEN Raise("ClientError", <<"Failed to search with query '", query, "': ", JSONDecodeDetail>>)
    ELSE IF out.body.form = "json_map" /\ out.body.hasResults /\ Len(out.body.results) > 0
    THEN Return(NoObject, SubSeq(out.body.results, 1, Len(out.body.results) - 1))
    ELSE Return(NoObject, <<>>)

MutFindSwallows(query, out) ==
    IF out.raised
    THEN Return(NoObject, <<>>)
    ELSE IF ~ResponseOk(out.status)
    THEN _handle_http_error(out.status, <<"Failed to search with query '", query, "'">>)
    ELSE IF out.body.form = "text"
    THEN Raise("ClientError", <<"Failed to search with query '", query, "': ", JSONDecodeDetail>>)
    ELSE IF out.body.form = "json_map" /\ out.body.hasResults
    THEN Return(NoObject, out.body.results)
    ELSE Return(NoObject, <<>>)

find(query, out) ==
    IF out.raised
    THEN Raise("ClientError", <<"Failed to search with query '", query, "': ", out.detail>>)
    ELSE IF ~ResponseOk(out.status)
    THEN _handle_http_error(out.status, <<"Failed to search with query '", query, "'">>)
    ELSE IF out.body.form = "text"
    THEN Raise("ClientError", <<"Failed to search with query '", query, "': ", JSONDecodeDetail>>)
    ELSE IF out.body.form = "json_map" /\ out.body.hasResults
    THEN Return(NoObject, out.body.results)
    ELSE Return(NoObject, <<>>)

\* The object id under which the repository keeps the schema of a type.
SchemaObjectId(schema_name) == "schemas/" \o schema_name

MutSchemaMissingIsClientError(schema_name, out) ==
    IF ~out.raised /\ out.status = 404
    THEN Raise("ClientError", <<"Failed to retrieve schema ", schema_name>>)
    ELSE get_object("schemas/" \o schema_name, out)

get_schema(schema_name, out) == get_object(SchemaObjectId(schema_name), out)

\* ----------------------------------------------------------- configuration
CordraUrl == "https://localhost:8443"
Timeout == 30

\* session.get(url, params=params, timeout=self.config.timeout)
ObjectRequest(object_id) ==
    [url |-> CordraUrl \o "/objects/" \o object_id, params |-> <<"full", "true">>,
     timeout |-> Timeout]

MutSearchRequestNoTimeout(query) ==
    [url |-> CordraUrl \o "/search", params |-> <<"query", query>>, timeout |-> 0]

SearchRequest(query) ==
    [url |-> CordraUrl \o "/search", params |-> <<"query", query>>, timeout |-> Timeout]

\* The requests one call issues, in order.
MutRetryObjectRequest(object_id) == <<ObjectRequest(object_id), ObjectRequest(object_id)>>

GetObjectRequests(object_id) == <<ObjectRequest(object_id)>>

FindRequests(query) == <<SearchRequest(query)>>

GetSchemaRequests(schema_name) == GetObjectRequests(SchemaObjectId(schema_name))

\* ------------------------------------------------- the repository's answers
TransportDetails == {"Connection failed", "Read timed out"}
ErrorStatuses == {400, 401, 403, 404, 500}
\* Statuses that are not 2xx and for which response.ok is true.
UnfollowedStatuses == {300}

TextBody ==
    [form |-> "text", type |-> ABSENT, content |-> ABSENT, metadata |-> ABSENT,
     acl |-> ABSENT, payloads |-> ABSENT, hasResults |-> FALSE, results |-> <<>>]

ListBody == [TextBody EXCEPT !.form = "json_list"]

ObjectMapBodies ==
    [form : {"json_map"},
     type : {ABSENT, "Person", "#7"},
     content : {ABSENT, "{title}", "Person"},
     metadata : {ABSENT, "{meta}"},
     acl : {ABSENT, "{acl}"},
     payloads : {ABSENT, "[{payload}]", "[strings]"},
     hasResults : {FALSE},
     results : {<<>>}]

ObjectBodies == ObjectMapBodies \cup {TextBody, ListBody}

FullBody ==
    [form |-> "json_map", type |-> "Person", content |-> "{title}", metadata |-> "{meta}",
     acl |-> "{acl}", payloads |-> "[{payload}]", hasResults |-> FALSE, results |-> <<>>]

Raised(detail) == [raised |-> TRUE, detail |-> detail, status |-> 0, body |-> TextBody]
Response(status, body) == [raised |-> FALSE, detail |-> "", status |-> status, body |-> body]

FailureOutcomes ==
    {Raised(d) : d \in TransportDetails} \cup {Response(s, TextBody) : s \in ErrorStatuses}

ObjectOutcomes ==
    FailureOutcomes
    \cup {Response(200, b) : b \in ObjectBodies}
    \cup {Response(s, b) : s \in UnfollowedStatuses, b \in {FullBody, TextBody}}

\* Search records: the keys the registrar reads (content, and name inside it).
Rec(form, content, name) == [form |-> form, content |-> content, name |-> name]
SearchRecords ==
    {Rec("json_map", "map", "User"), Rec("json_map", "map", "Project"),
     Rec("json_map", "map", ABSENT), Rec("json_map", "map", ""),
     Rec("json_map", ABSENT, ABSENT), Rec("json_map", JNull, ABSENT),
     Rec("json_string", ABSENT, ABSENT)}

RECURSIVE SeqsUpTo(_, _)
SeqsUpTo(S, n) ==
    IF n = 0 THEN {<<>>}
    ELSE LET shorter == SeqsUpTo(S, n - 1)
         IN shorter \cup {Append(q, x) : q \in {q \in shorter : Len(q) = n - 1}, x \in S}

SearchBody(hasResults, results) ==
    [form |-> "json_map", type |-> ABSENT, content |-> ABSENT, metadata |-> ABSENT,
     acl |-> ABSENT, payloads |-> ABSENT, hasResults |-> hasResults, results |-> results]

SearchBodies ==
    {SearchBody(TRUE, rs) : rs \in SeqsUpTo(SearchRecords, MaxRecords)}
    \cup {SearchBody(FALSE, <<>>), TextBody, ListBody}

SearchOutcomes ==
    FailureOutcomes
    \cup {Response(200, b) : b \in SearchBodies}
    \cup {Response(s, SearchBody(TRUE, <<>>)) : s \in UnfollowedStatuses}

\* find hands the records on without reading them: the calls made on the client
\* alone draw them from three of the records.
PlainRecords ==
    {Rec("json_map", "map", "User"), Rec("json_map", "map", "Project"),
     Rec("json_string", ABSENT, ABSENT)}

PlainSearchOutcomes ==
    FailureOutcomes
    \cup {Response(200, SearchBody(TRUE, rs)) : rs \in SeqsUpTo(PlainRecords, MaxRecords)}
    \cup {Response(200, b) : b \in {SearchBody(FALSE, <<>>), TextBody, ListBody}}
    \cup {Response(s, SearchBody(TRUE, <<>>)) : s \in UnfollowedStatuses}

ObjectIds == {"people/john-doe-123", "documents/report-2023"}
SchemaNames == {"User", "Project"}
Queries == {"type:Schema", "invalid:query"}

\* -------------------------------------------------------------------- state
VARIABLES
    requests,     \* the requests sent to the repository, in order
    calls,        \* the client calls made, in order: [op, arg]
    lastOut,      \* the repository's answer to the latest request
    last,         \* what the latest client call returned or raised
    phase,        \* "init" while main() runs initialize_server, then "serving"
    resources,    \* the schema resources added to the MCP server, in order
    diagnostics,  \* the warnings logged by register_schema_resources
    found,        \* what find("type:Schema") gave register_schema_resources
    handled,      \* the latest protocol request handled: [handler, args]
    reply,        \* what the latest resource or tool handler returned or raised
    package,      \* the package whose main() this process runs
    inflight      \* the client calls in progress at once, one frame of locals each

clientVars == <<requests, calls, lastOut, last>>
serverVars == <<phase, resources, diagnostics, found, handled, reply, package>>
vars ==
    <<requests, calls, lastOut, last, phase, resources, diagnostics, found, handled, reply,
      package, inflight>>

\* The two packages of the repository that carry a server module with a main().
Packages == {"cordra_mcp", "mcp_cordra"}

NoResult == Raise("none", <<>>)
NoRequest == [handler |-> "none", args |-> <<>>]
NoReply == [kind |-> "none", text |-> <<>>, doc |-> <<>>]

\* A call in progress holds its arguments and its locals (url and params as the
\* request, response) and, once it has returned or raised, its result.
Slots == 1..MaxInFlight
IdleFrame ==
    [pc |-> "idle", op |-> "none", arg |-> "", request |-> SearchRequest(""),
     response |-> Raised(""), result |-> NoResult]

Init ==
    /\ requests = <<>>
    /\ calls = <<>>
    /\ lastOut = Raised("")
    /\ last = NoResult
    /\ phase = "init"
    /\ resources = <<>>
    /\ diagnostics = <<>>
    /\ found = NoResult
    /\ handled = NoRequest
    /\ reply = NoReply
    /\ package \in Packages
    /\ inflight = [s \in Slots |-> IdleFrame]

\* One client call: the requests it sends, the answer to the last of them, its result.
ClientCall(op, arg, reqs, out, result) ==
    /\ UNCHANGED inflight
    /\ calls' = Append(calls, [op |-> op, arg |-> arg])
    /\ requests' = requests \o reqs
    /\ lastOut' = out
    /\ last' = result

CallGetObject ==
    \E object_id \in ObjectIds, out \in ObjectOutcomes :
        /\ Len(calls) < MaxCalls
        /\ ClientCall("get_object", object_id, GetObjectRequests(object_id), out,
                      get_object(object_id, out))
        /\ UNCHANGED serverVars

CallGetSchema ==
    \E schema_name \in SchemaNames, out \in ObjectOutcomes :
        /\ Len(calls) < MaxCalls
        /\ ClientCall("get_schema", schema_name, GetSchemaRequests(schema_name), out,
                      get_schema(schema_name, out))
        /\ UNCHANGED serverVars

CallFind ==
    \E query \in Queries, out \in PlainSearchOutcomes :
        /\ Len(calls) < MaxCalls
        /\ ClientCall("find", query, FindRequests(query), out, find(query, out))
        /\ UNCHANGED serverVars

NextClient == CallGetObject \/ CallGetSchema \/ CallFind

SpecClient == Init /\ [][NextClient]_vars

\* ------------------------------------------------------- calls in progress
\* The calls started while another is in progress, and the answers drawn for them.
InFlightCalls ==
    {[op |-> "get_object", arg |-> id] : id \in ObjectIds}
    \cup {[op |-> "find", arg |-> "type:Schema"], [op |-> "get_schema", arg |-> "User"]}
InFlightOutcomes ==
    {Raised("Connection failed"), Response(404, TextBody), Response(200, FullBody)}

RequestFor(op, arg) ==
    CASE op = "get_object" -> ObjectRequest(arg)
      [] op = "get_schema" -> ObjectRequest(SchemaObjectId(arg))
      [] OTHER -> SearchRequest(arg)

ResultFor(op, arg, out) ==
    CASE op = "get_object" -> get_object(arg, out)
      [] op = "get_schema" -> get_schema(arg, out)
      [] OTHER -> find(arg, out)

\* The response a call works on: the local `response` of its own frame.
MutSharedResponse(table, s) ==
    IF \E t \in Slots \ {s} : table[t].pc \in {"answered", "done"}
    THEN table[CHOOSE t \in Slots \ {s} : table[t].pc \in {"answered", "done"}].response
    ELSE table[s].response

ResponseSeenBy(table, s) == table[s].response

\* A call starts: url and params are built and session.get is entered.
Begin(s) ==
    \E call \in InFlightCalls :
        /\ inflight[s].pc = "idle"
        /\ inflight' = [inflight EXCEPT ![s] =
               [IdleFrame EXCEPT !.pc = "waiting", !.op = call.op, !.arg = call.arg,
                                 !.request = RequestFor(call.op, call.arg)]]
        /\ UNCHANGED <<clientVars, serverVars>>

\* session.get returns the repository's answer to the call's own request, or raises
\* on a failed connection.
Respond(s) ==
    \E out \in InFlightOutcomes :
        /\ inflight[s].pc = "waiting"
        /\ inflight' = [inflight EXCEPT ![s].pc = "answered", ![s].response = out]
        /\ UNCHANGED <<clientVars, serverVars>>

\* No answer within the timeout passed to session.get: it raises requests' Timeout,
\* a RequestException. A request sent with no timeout (0 here) is never given up.
TimeOut(s) ==
    /\ inflight[s].pc = "waiting"
    /\ inflight[s].request.timeout > 0
    /\ inflight' = [inflight EXCEPT ![s].pc = "answered",
                                    ![s].response = Raised("Read timed out")]
    /\ UNCHANGED <<clientVars, serverVars>>

\* The rest of the method: the checks on the response, the parsing, the except clause.
Finish(s) ==
    /\ inflight[s].pc = "answered"
    /\ inflight' = [inflight EXCEPT ![s].pc = "done",
           ![s].result = ResultFor(inflight[s].op, inflight[s].arg,
                                   ResponseSeenBy(inflight, s))]
    /\ UNCHANGED <<clientVars, serverVars>>

NextInFlight == \E s \in Slots : Begin(s) \/ Respond(s) \/ TimeOut(s) \/ Finish(s)

\* The timeout handed to session.get ends a wait, and a method that has its response
\* runs to its return or raise: both are weakly fair.
SpecInFlight ==
    /\ Init
    /\ [][NextInFlight]_vars
    /\ \A s \in Slots : WF_vars(TimeOut(s)) /\ WF_vars(Finish(s))

\* ------------------------------------------------------------ resource layer
Quote(str) == "\"" \o str \o "\""
RenderValue(v) ==
    IF v = JNull THEN "null"
    ELSE IF v \in JMaps \cup JListsOfMaps \cup JListsOther \cup JNums THEN v
    ELSE Quote(v)

MutDumpsExcludeNone(obj) ==
    << <<Quote("id"), Quote(obj.id)>>,
       <<Quote("type"), Quote(obj.type)>>,
       <<Quote("content"), {<<Quote(m[1]), RenderValue(m[2])>> : m \in obj.content}>> >>
    \o (IF obj.metadata = JNull THEN <<>>
        ELSE << <<Quote("metadata"), RenderValue(obj.metadata)>> >>)
    \o (IF obj.acl = JNull THEN <<>> ELSE << <<Quote("acl"), RenderValue(obj.acl)>> >>)
    \o (IF obj.payloads = JNull THEN <<>>
        ELSE << <<Quote("payloads"), RenderValue(obj.payloads)>> >>)

\* json.dumps(digital_object.model_dump(), indent=2): the document's members in
\* field order, each a quoted key and its rendered value.
json_dumps(obj) ==
    << <<Quote("id"), Quote(obj.id)>>,
       <<Quote("type"), Quote(obj.type)>>,
       <<Quote("content"), {<<Quote(m[1]), RenderValue(m[2])>> : m \in obj.content}>>,
       <<Quote("metadata"), RenderValue(obj.metadata)>>,
       <<Quote("acl"), RenderValue(obj.acl)>>,
       <<Quote("payloads"), RenderValue(obj.payloads)>> >>

\* json.loads of such a document: the value of a key, a rendered value read back.
Unquote(text) == SubSeq(text, 2, Len(text) - 1)
ParseValue(text) ==
    IF text = "null" THEN JNull
    ELSE IF SubSeq(text, 1, 1) = "\"" THEN Unquote(text)
    ELSE text
HasMember(doc, key) == \E i \in 1..Len(doc) : doc[i][1] = Quote(key)
Member(doc, key) == doc[CHOOSE i \in 1..Len(doc) : doc[i][1] = Quote(key)][2]
json_loads(doc) ==
    [id |-> ParseValue(Member(doc, "id")),
     type |-> ParseValue(Member(doc, "type")),
     content |-> {<<Unquote(m[1]), ParseValue(m[2])>> : m \in Member(doc, "content")},
     metadata |-> ParseValue(Member(doc, "metadata")),
     acl |-> ParseValue(Member(doc, "acl")),
     payloads |-> ParseValue(Member(doc, "payloads"))]

Replied(doc) == [kind |-> "ok", text |-> <<>>, doc |-> doc]
Failed(kind, text) == [kind |-> kind, text |-> text, doc |-> <<>>]

\* object_id = f"{prefix}/{suffix}"
MutObjectIdNoSlash(prefix, suffix) == prefix \o suffix

ObjectIdOf(prefix, suffix) == prefix \o "/" \o suffix

MutObjectReplyGenericFirst(object_id, result) ==
    CASE result.kind = "ok" -> Replied(json_dumps(result.obj))
      [] result.kind = "ValidationError" ->
            Failed("RuntimeError", <<"Invalid parameters: ">> \o result.msg)
      [] result.kind \in ClientKinds ->
            Failed("RuntimeError",
                   <<"Failed to retrieve object ", object_id, ": ">> \o result.msg)
      [] OTHER -> Failed(result.kind, result.msg)

\* get_cordra_object once cordra_client.get_object(object_id) has returned or raised.
ObjectReply(object_id, result) ==
    CASE result.kind = "ok" -> Replied(json_dumps(result.obj))
      [] result.kind = "ValidationError" ->
            Failed("RuntimeError", <<"Invalid parameters: ">> \o result.msg)
      [] result.kind = "NotFound" ->
            Failed("RuntimeError", <<"Object not found: ", object_id>>)
      [] result.kind = "AuthenticationFailed" ->
            Failed("RuntimeError", <<"Authentication failed: ">> \o result.msg)
      [] result.kind = "ClientError" ->
            Failed("RuntimeError",
                   <<"Failed to retrieve object ", object_id, ": ">> \o result.msg)
      [] OTHER -> Failed(result.kind, result.msg)

\* create_schema_resource once cordra_client.get_schema(schema_name) has returned
\* or raised.
SchemaReply(schema_name, result) ==
    CASE result.kind = "ok" -> Replied(json_dumps(result.obj))
      [] result.kind = "NotFound" ->
            Failed("RuntimeError", <<"Schema not found: ", schema_name>>)
      [] result.kind = "AuthenticationFailed" ->
            Failed("RuntimeError", <<"Authentication failed: ">> \o result.msg)
      [] result.kind = "ClientError" ->
            Failed("RuntimeError",
                   <<"Failed to retrieve schema ", schema_name, ": ">> \o result.msg)
      [] OTHER -> Failed(result.kind, result.msg)

\* The FunctionResource added for a schema; bound is schema_fn's default argument.
SchemaResource(schema_name) ==
    [uri |-> "cordra://schemas/" \o schema_name,
     name |-> "cordra-type-schema-" \o schema_name,
     bound |-> schema_name]

NoError == Raise("none", <<>>)
SkipWarning == <<"Schema without a name found, skipping.">>
FailureWarning(error) == <<"Failed to register schema resources: ">> \o error.msg

\* schema.get("content", {}).get("name"): the name, ABSENT for None, or the
\* AttributeError raised on a record or a content that has no get.
SchemaNameOf(schema) ==
    IF schema.form # "json_map"
    THEN Raise("AttributeError", <<"'str' object has no attribute 'get'">>)
    ELSE IF schema.content = JNull
    THEN Raise("AttributeError", <<"'NoneType' object has no attribute 'get'">>)
    ELSE IF schema.content = ABSENT
    THEN Return(NoObject, <<ABSENT>>)
    ELSE Return(NoObject, <<schema.name>>)

\* `not schema_name`
Falsy(schema_name) == schema_name \in {ABSENT, JNull, ""}

\* The for loop of register_schema_resources from record i on: the resources added,
\* the warnings logged and the exception that ended the loop, if any.
RECURSIVE RegisterLoop(_, _, _, _)
RegisterLoop(schemas, i, added, warned) ==
    IF i > Len(schemas)
    THEN [resources |-> added, diagnostics |-> warned, error |-> NoError]
    ELSE LET got == SchemaNameOf(schemas[i])
         IN IF got.kind # "ok"
            THEN [resources |-> added, diagnostics |-> warned, error |-> got]
            ELSE IF Falsy(got.records[1])
            THEN RegisterLoop(schemas, i + 1, added, Append(warned, SkipWarning))
            ELSE RegisterLoop(schemas, i + 1,
                              Append(added, SchemaResource(got.records[1])), warned)

MutRegisterNoExcept(result, added, warned) ==
    IF result.kind # "ok"
    THEN [resources |-> added, diagnostics |-> warned, escaped |-> TRUE]
    ELSE LET loop == RegisterLoop(result.records, 1, added, warned)
         IN IF loop.error.kind # "none"
            THEN [resources |-> loop.resources,
                  diagnostics |-> Append(loop.diagnostics, FailureWarning(loop.error)),
                  escaped |-> FALSE]
            ELSE [resources |-> loop.resources, diagnostics |-> loop.diagnostics,
                  escaped |-> FALSE]

\* register_schema_resources once cordra_client.find("type:Schema") has returned or
\* raised result: `except Exception` lets nothing escape.
register_schema_resources(result, added, warned) ==
    IF result.kind # "ok"
    THEN [resources |-> added, diagnostics |-> Append(warned, FailureWarning(result)),
          escaped |-> FALSE]
    ELSE LET loop == RegisterLoop(result.records, 1, added, warned)
         IN IF loop.error.kind # "none"
            THEN [resources |-> loop.resources,
                  diagnostics |-> Append(loop.diagnostics, FailureWarning(loop.error)),
                  escaped |-> FALSE]
            ELSE [resources |-> loop.resources, diagnostics |-> loop.diagnostics,
                  escaped |-> FALSE]

\* mcp_cordra/server.py registers with mcp.resource(uri, name=...) and a handler
\* made by make_schema_handler(schema_name); bound is its captured_name.
SchemaResourceMcpCordra(schema_name) ==
    [uri |-> "cordra://schemas/" \o schema_name,
     name |-> "cordra-schema-" \o schema_name,
     bound |-> schema_name]

\* isinstance(schema, dict) and 'content' in schema and 'name' in schema['content'],
\* then schema['content']['name']: the name, ABSENT when the condition is false,
\* or the TypeError raised by `in` on a content that is None.
NameKeyOf(schema) ==
    IF schema.form # "json_map" \/ schema.content = ABSENT
    THEN Return(NoObject, <<ABSENT>>)
    ELSE IF schema.content = JNull
    THEN Raise("TypeError", <<"argument of type 'NoneType' is not iterable">>)
    ELSE Return(NoObject, <<schema.name>>)

\* The for loop of mcp_cordra's register_schema_resources from record i on: a record
\* that fails the condition is passed over without a warning.
RECURSIVE RegisterLoopMcpCordra(_, _, _, _)
RegisterLoopMcpCordra(schemas, i, added, warned) ==
    IF i > Len(schemas)
    THEN [resources |-> added, diagnostics |-> warned, error |-> NoError]
    ELSE LET got == NameKeyOf(schemas[i])
         IN IF got.kind # "ok"
            THEN [resources |-> added, diagnostics |-> warned, error |-> got]
            ELSE IF got.records[1] = ABSENT
            THEN RegisterLoopMcpCordra(schemas, i + 1, added, warned)
            ELSE RegisterLoopMcpCordra(schemas, i + 1,
                     Append(added, SchemaResourceMcpCordra(got.records[1])), warned)

MutRegisterRollsBack(result, added, warned) ==
    IF result.kind # "ok"
    THEN [resources |-> added, diagnostics |-> Append(warned, FailureWarning(result)),
          escaped |-> FALSE]
    ELSE LET loop == RegisterLoopMcpCordra(result.records, 1, added, warned)
         IN IF loop.error.kind # "none"
            THEN [resources |-> added,
                  diagnostics |-> Append(loop.diagnostics, FailureWarning(loop.error)),
                  escaped |-> FALSE]
            ELSE [resources |-> loop.resources, diagnostics |-> loop.diagnostics,
                  escaped |-> FALSE]

\* mcp_cordra's register_schema_resources, with the same `except Exception`.
register_schema_resources_mcp_cordra(result, added, warned) ==
    IF result.kind # "ok"
    THEN [resources |-> added, diagnostics |-> Append(warned, FailureWarning(result)),
          escaped |-> FALSE]
    ELSE LET loop == RegisterLoopMcpCordra(result.records, 1, added, warned)
         IN IF loop.error.kind # "none"
            THEN [resources |-> loop.resources,
                  diagnostics |-> Append(loop.diagnostics, FailureWarning(loop.error)),
                  escaped |-> FALSE]
            ELSE [resources |-> loop.resources, diagnostics |-> loop.diagnostics,
                  escaped |-> FALSE]

\* The answers drawn for the requests of the resource handlers.
IllTypedBody == [FullBody EXCEPT !.content = "Person"]
MinimalBody == [FullBody EXCEPT !.type = ABSENT, !.content = ABSENT, !.metadata = ABSENT,
                                !.acl = ABSENT, !.payloads = ABSENT]
ServedOutcomes ==
    {Raised("Connection failed"), Response(404, TextBody), Response(401, TextBody),
     Response(403, TextBody), Response(500, TextBody), Response(200, FullBody),
     Response(200, MinimalBody), Response(200, IllTypedBody), Response(200, ListBody)}

Prefixes == {"people", "documents"}
Suffixes == {"john-doe-123", "report-2023"}

\* The name schema_fn passes to create_schema_resource when the i-th registered
\* resource is read: its default argument, bound when the function was defined.
MutLateBoundName(table, i) == table[Len(table)].bound

BoundName(table, i) == table[i].bound

\* main() runs asyncio.run(initialize_server()) once, and calls mcp.run(), which
\* serves the protocol's requests, only after it has returned.
MutInitializeAgain(p) == p \in {"init", "serving"}

MayInitialize(p) == p = "init"

MutServeFromStart(p) == p \in {"init", "serving"}

MayServe(p) == p = "serving"

\* main(): asyncio.run(initialize_server()), then mcp.run().
InitializeServer ==
    \E out \in SearchOutcomes :
        LET result == find("type:Schema", out)
            done == IF package = "cordra_mcp"
                    THEN register_schema_resources(result, resources, diagnostics)
                    ELSE register_schema_resources_mcp_cordra(result, resources, diagnostics)
        IN /\ MayInitialize(phase)
           /\ ClientCall("find", "type:Schema", FindRequests("type:Schema"), out, result)
           /\ found' = result
           /\ resources' = done.resources
           /\ diagnostics' = done.diagnostics
           /\ phase' = IF done.escaped THEN "crashed" ELSE "serving"
           /\ UNCHANGED <<handled, reply, package>>

GetCordraObject ==
    \E prefix \in Prefixes, suffix \in Suffixes, out \in ServedOutcomes :
        LET object_id == ObjectIdOf(prefix, suffix)
            result == get_object(object_id, out)
        IN /\ MayServe(phase)
           /\ Len(calls) < MaxCalls
           /\ ClientCall("get_object", object_id, GetObjectRequests(object_id), out, result)
           /\ handled' = [handler |-> "get_cordra_object", args |-> <<prefix, suffix>>]
           /\ reply' = ObjectReply(object_id, result)
           /\ UNCHANGED <<phase, resources, diagnostics, found, package>>

ReadSchemaResource ==
    \E i \in 1..Len(resources), out \in ServedOutcomes :
        LET schema_name == BoundName(resources, i)
            result == get_schema(schema_name, out)
        IN /\ MayServe(phase)
           /\ Len(calls) < MaxCalls
           /\ ClientCall("get_schema", schema_name, GetSchemaRequests(schema_name), out,
                         result)
           /\ handled' = [handler |-> "schema_fn", args |-> <<resources[i].uri>>]
           /\ reply' = SchemaReply(schema_name, result)
           /\ UNCHANGED <<phase, resources, diagnostics, found, package>>

Ping ==
    /\ MayServe(phase)
    /\ handled' = [handler |-> "ping", args |-> <<>>]
    /\ reply' = Failed("ok", <<"pong">>)
    /\ UNCHANGED <<clientVars, phase, resources, diagnostics, found, package, inflight>>

Next == InitializeServer \/ GetCordraObject \/ ReadSchemaResource \/ Ping

Spec == Init /\ [][Next]_vars

\* ------------------------------------------------------------------ claims
LastCall == calls[Len(calls)]
Made(op) == Len(calls) > 0 /\ LastCall.op = op
Contains(msg, part) == \E i \in 1..Len(msg) : msg[i] = part
Is2xx(status_code) == 200 <= status_code /\ status_code < 300

\* What C1 says of the statuses 404, 401 and 403 and of a transport exception.
C1_Common ==
    /\ (~lastOut.raised /\ lastOut.status = 404) =>
           (last.kind = "NotFound" /\ Contains(last.msg, LastCall.arg))
    /\ (~lastOut.raised /\ lastOut.status \in {401, 403}) =>
           last.kind = "AuthenticationFailed"
    /\ lastOut.raised => last.kind = "ClientError"

\* C1 as stated: get_object answers 404 with NotFound carrying the id, 401 and 403
\* with AuthenticationFailed, and every other response that is not 2xx, like every
\* transport exception, with ClientError.
C1_AsStated ==
    Made("get_object") =>
        /\ C1_Common
        /\ (~lastOut.raised /\ ~Is2xx(lastOut.status) /\ lastOut.status \notin {404, 401, 403})
               => last.kind = "ClientError"

\* C1 amended: get_object answers 404 with NotFound carrying the id, 401 and 403 with
\* AuthenticationFailed, and every other response with a status from 400 to 599, like
\* every transport exception, with ClientError.
C1_ErrorMapping ==
    Made("get_object") =>
        /\ C1_Common
        /\ (~lastOut.raised /\ 400 <= lastOut.status /\ lastOut.status < 600
                /\ lastOut.status \notin {404, 401, 403})
               => last.kind = "ClientError"

C1_Witness ==
    /\ Made("get_object") /\ ~lastOut.raised /\ lastOut.status = 404
    /\ last.kind = "NotFound" /\ Contains(last.msg, "people/john-doe-123")

\* C2 as stated: a client call either returns, and then the request was answered
\* with a response the library takes for a success, or fails with NotFound,
\* AuthenticationFailed or ClientError; no other kind of error leaves the client.
C2_OnlyThreeKinds ==
    Len(calls) > 0 =>
        /\ last.kind \in ClientKinds \cup {"ok"}
        /\ last.kind = "ok" => (~lastOut.raised /\ ResponseOk(lastOut.status))

\* The body's fields have the types DigitalObject declares.
WellTyped(body) ==
    /\ body.type \in JStrings \cup {ABSENT}
    /\ body.content \in JMaps \cup {ABSENT}
    /\ body.metadata \in JMaps \cup {JNull, ABSENT}
    /\ body.acl \in JMaps \cup {JNull, ABSENT}
    /\ body.payloads \in JListsOfMaps \cup {JNull, ABSENT}

\* The object C3 describes for a request of object_id answered with body.
C3_Expected(object_id, body) ==
    [id |-> object_id,
     type |-> IF body.type = ABSENT THEN "" ELSE body.type,
     content |-> IF body.content = ABSENT
                 THEN {<<k, body[k]>> : k \in {k \in ObjectKeys : body[k] # ABSENT}}
                 ELSE MembersOfToken(body.content),
     metadata |-> IF body.metadata = ABSENT THEN JNull ELSE body.metadata,
     acl |-> IF body.acl = ABSENT THEN JNull ELSE body.acl,
     payloads |-> IF body.payloads = ABSENT THEN JNull ELSE body.payloads]

\* C3 as stated: for every 2xx response whose body is a JSON mapping, get_object
\* returns the object with the requested id, the body's type ("" when absent), the
\* body's metadata, acl and payloads (null when absent) and the body's content, or
\* the whole body when it has no content field.
C3_AsStated ==
    (Made("get_object") /\ ~lastOut.raised /\ Is2xx(lastOut.status)
        /\ lastOut.body.form = "json_map")
    => (last.kind = "ok" /\ last.obj = C3_Expected(LastCall.arg, lastOut.body))

\* C3 amended: the same, for every 2xx response whose body is a JSON mapping with
\* fields of the types DigitalObject declares.
C3_ObjectFromBody ==
    (Made("get_object") /\ ~lastOut.raised /\ Is2xx(lastOut.status)
        /\ lastOut.body.form = "json_map" /\ WellTyped(lastOut.body))
    => (last.kind = "ok" /\ last.obj = C3_Expected(LastCall.arg, lastOut.body))

C3_Witness ==
    /\ Made("get_object") /\ ~lastOut.raised /\ lastOut.status = 200
    /\ lastOut.body.form = "json_map" /\ lastOut.body.content = ABSENT
    /\ lastOut.body.type = "Person" /\ lastOut.body.metadata = ABSENT
    /\ last.kind = "ok" /\ last.obj.content = {<<"type", "Person">>}
    /\ last.obj.metadata = JNull

\* C4: for a search answered with a 2xx JSON body, find returns the records of the
\* body's results field, in order, and the empty sequence when there is no such key.
C4_FindResults ==
    (Made("find") /\ ~lastOut.raised /\ Is2xx(lastOut.status) /\ lastOut.body.form # "text")
    => /\ last.kind = "ok"
       /\ last.records = IF lastOut.body.form = "json_map" /\ lastOut.body.hasResults
                         THEN lastOut.body.results ELSE <<>>

C4_Witness ==
    /\ Made("find") /\ last.kind = "ok" /\ lastOut.body.hasResults
    /\ Len(last.records) = 2 /\ last.records[1].name = "User"
    /\ last.records[2].name = "Project"

\* C5: when the search request fails in transport, find raises ClientError with a
\* message that names the search, its query and the failure's details.
C5_FindTransportFailure ==
    (Made("find") /\ lastOut.raised)
    => /\ last.kind = "ClientError"
       /\ last.msg[1] = "Failed to search with query '"
       /\ Contains(last.msg, LastCall.arg)
       /\ Contains(last.msg, lastOut.detail)

C5_Witness ==
    /\ Made("find") /\ lastOut.raised /\ LastCall.arg = "invalid:query"
    /\ last.kind = "ClientError" /\ Contains(last.msg, "Connection failed")

\* The request a call to op with arg sends.
RequestOf(call) ==
    CASE call.op = "get_object" ->
            [url |-> CordraUrl \o "/objects/" \o call.arg, params |-> <<"full", "true">>,
             timeout |-> Timeout]
      [] call.op = "get_schema" ->
            [url |-> CordraUrl \o "/objects/schemas/" \o call.arg,
             params |-> <<"full", "true">>, timeout |-> Timeout]
      [] call.op = "find" ->
            [url |-> CordraUrl \o "/search", params |-> <<"query", call.arg>>,
             timeout |-> Timeout]

\* C6: every client call sends exactly one request, its own, whatever the outcome
\* of this call and whatever calls were made before it.
C6_OneRequestPerCall ==
    /\ Len(requests) = Len(calls)
    /\ \A i \in 1..Len(calls) : requests[i] = RequestOf(calls[i])

C6_Witness ==
    /\ Len(calls) = 2 /\ calls[1] = calls[2] /\ calls[1].op = "get_object"
    /\ Len(requests) = 2 /\ last.kind = "ClientError"

C8_ObjectIdConstruction ==
    handled.handler = "get_cordra_object" =>
        /\ LastCall.op = "get_object"
        /\ LastCall.arg = handled.args[1] \o "/" \o handled.args[2]
        /\ Len(LastCall.arg) = Len(handled.args[1]) + 1 + Len(handled.args[2])

C8_Witness ==
    /\ handled = [handler |-> "get_cordra_object", args |-> <<"people", "john-doe-123">>]
    /\ LastCall.arg = "people/john-doe-123"
    /\ reply.kind = "RuntimeError"

\* A record with a name the registrar can use: a mapping whose content is a mapping
\* with a non-empty name.
HasUsableName(record) ==
    record.form = "json_map" /\ record.content = "map" /\ record.name \notin {ABSENT, ""}
LacksUsableName(record) == ~HasUsableName(record)

\* C9 as stated: whatever records find("type:Schema") returned, there is one
\* resource for each record with a usable content.name, in order, and none for the
\* others; there is a warning for every nameless record and nothing was raised.
C9_AsStated ==
    (phase # "init" /\ found.kind = "ok") =>
        LET named == SelectSeq(found.records, HasUsableName)
            nameless == SelectSeq(found.records, LacksUsableName)
        IN /\ phase = "serving"
           /\ Len(resources) = Len(named)
           /\ \A i \in 1..Len(named) : resources[i].bound = named[i].name
           /\ Len(diagnostics) >= Len(nameless)

\* C10: when find("type:Schema") raises a client error, no exception leaves the
\* registration, no schema resource is registered, a warning is logged and the
\* server serves the object resource and the ping tool.
C10_DiscoveryFailure ==
    (phase # "init" /\ found.kind \in ClientKinds) =>
        /\ phase = "serving"
        /\ resources = <<>>
        /\ Len(diagnostics) = 1 /\ diagnostics[1] = FailureWarning(found)
        /\ ENABLED Ping
        /\ Len(calls) < MaxCalls => ENABLED GetCordraObject

C10_Witness ==
    /\ found.kind = "ClientError" /\ resources = <<>>
    /\ handled.handler = "get_cordra_object" /\ reply.kind = "ok"

\* C11: reading a registered schema resource calls get_schema with the name that
\* resource was registered for, not another schema's, and a successful read
\* returns the JSON document of the object get_schema returned.
C11_OwnSchemaName ==
    /\ \A i \in 1..Len(resources) :
           resources[i].uri = "cordra://schemas/" \o resources[i].bound
    /\ handled.handler = "schema_fn" =>
           /\ LastCall.op = "get_schema"
           /\ handled.args[1] = "cordra://schemas/" \o LastCall.arg
           /\ last.kind = "ok" => reply = Replied(json_dumps(last.obj))

C11_Witness ==
    /\ Len(resources) = 2 /\ resources[1].bound = "User" /\ resources[2].bound = "Project"
    /\ handled = [handler |-> "schema_fn", args |-> <<"cordra://schemas/User">>]
    /\ LastCall = [op |-> "get_schema", arg |-> "User"]
    /\ reply.kind = "ok"

\* C12: a protocol request is handled only after the one run of the registration
\* has ended: the first client call of the process is its find("type:Schema"), no
\* other call is one, and no handler has run while the process initialises.
C12_InitBeforeServing ==
    /\ phase = "init" => (handled = NoRequest /\ reply = NoReply /\ calls = <<>>)
    /\ phase # "init" =>
           /\ calls[1] = [op |-> "find", arg |-> "type:Schema"]
           /\ \A i \in 2..Len(calls) : calls[i].op # "find"

C12_Witness ==
    /\ phase = "serving" /\ handled.handler = "get_cordra_object"
    /\ Len(calls) = 2 /\ calls[1].op = "find"

\* C13: once the server serves, no step changes the registered schema resources.
C13_RegistrationFrozen == [][phase = "serving" => resources' = resources]_vars

C13_Witness ==
    /\ phase = "serving" /\ Len(resources) = 1
    /\ handled.handler = "schema_fn" /\ reply.kind = "RuntimeError"

\* A record on which the loop of the running package's registration raises, and a
\* record for which it registers a resource.
FailsOn(record) ==
    IF package = "cordra_mcp"
    THEN record.form # "json_map" \/ record.content = JNull
    ELSE record.form = "json_map" /\ record.content = JNull
RegistersFor(record) ==
    /\ record.form = "json_map" /\ record.content = "map"
    /\ IF package = "cordra_mcp" THEN record.name \notin {ABSENT, ""} ELSE record.name # ABSENT
FirstFailure(records) ==
    IF \E i \in 1..Len(records) : FailsOn(records[i])
    THEN CHOOSE i \in 1..Len(records) :
             FailsOn(records[i]) /\ \A j \in 1..(i - 1) : ~FailsOn(records[j])
    ELSE Len(records) + 1

\* C18: nothing escapes register_schema_resources whatever find returned; when the
\* processing of a record raises, the resources are exactly those of the records
\* before it (kept, none for the records after it), and the warning that reports
\* the failure is the last thing logged.
C18_PartialRegistration ==
    /\ phase # "init" => phase = "serving"
    /\ (phase # "init" /\ found.kind = "ok") =>
        LET k == FirstFailure(found.records)
            before == SelectSeq(SubSeq(found.records, 1, k - 1), RegistersFor)
        IN /\ Len(resources) = Len(before)
           /\ \A i \in 1..Len(before) : resources[i].bound = before[i].name
           /\ k <= Len(found.records) =>
                  /\ diagnostics # <<>>
                  /\ diagnostics[Len(diagnostics)][1] = "Failed to register schema resources: "
           /\ k > Len(found.records) =>
                  \A i \in 1..Len(diagnostics) : diagnostics[i] = SkipWarning

C18_Witness ==
    /\ phase = "serving" /\ found.kind = "ok" /\ Len(found.records) = 2
    /\ found.records[1].name = "User" /\ found.records[2].content = JNull
    /\ Len(resources) = 1 /\ resources[1].bound = "User"
    /\ Len(diagnostics) = 1

\* The fields of a DigitalObject, and those that may be None.
ObjectFields == {"id", "type", "content", "metadata", "acl", "payloads"}
OptionalFields == {"metadata", "acl", "payloads"}

\* C15: the document a resource handler returns for a DigitalObject has the six
\* fields and no other member, parses back to the object the client returned, and
\* renders an optional field that is None as null.
C15_RoundTrip ==
    (handled.handler \in {"get_cordra_object", "schema_fn"} /\ reply.kind = "ok") =>
        /\ last.kind = "ok"
        /\ Len(reply.doc) = 6
        /\ \A f \in ObjectFields : HasMember(reply.doc, f)
        /\ json_loads(reply.doc) = last.obj
        /\ \A f \in OptionalFields :
               last.obj[f] = JNull <=> Member(reply.doc, f) = "null"

C15_Witness ==
    /\ handled.handler = "get_cordra_object" /\ reply.kind = "ok"
    /\ last.obj.metadata = JNull /\ last.obj.acl = JNull /\ last.obj.payloads = JNull
    /\ Member(reply.doc, "payloads") = "null"

C16_CallsIndependent ==
    \A s \in Slots :
        inflight[s].pc = "done" =>
            /\ inflight[s].request = RequestFor(inflight[s].op, inflight[s].arg)
            /\ inflight[s].result =
                   ResultFor(inflight[s].op, inflight[s].arg, inflight[s].response)

C16_Witness ==
    /\ inflight[1].pc = "done" /\ inflight[2].pc = "answered"
    /\ inflight[1].op = "get_object" /\ inflight[2].op = "get_object"
    /\ inflight[1].arg # inflight[2].arg
    /\ inflight[1].result.kind = "NotFound" /\ inflight[2].response = Response(200, FullBody)

\* C17: every request carries the configured timeout; a call that waits for its
\* answer finishes, and one whose wait the timeout ended raises ClientError.
C17_CallsFinish ==
    /\ [](\A s \in Slots :
              inflight[s].pc # "idle" => inflight[s].request.timeout = Timeout)
    /\ [](\A s \in Slots :
              (inflight[s].pc = "done" /\ inflight[s].response = Raised("Read timed out"))
                  => inflight[s].result.kind = "ClientError")
    /\ \A s \in Slots : (inflight[s].pc = "waiting") ~> (inflight[s].pc = "done")

C17_Witness ==
    \E s \in Slots :
        /\ inflight[s].pc = "done" /\ inflight[s].op = "find"
        /\ inflight[s].response = Raised("Read timed out")
        /\ inflight[s].result.kind = "ClientError"

====
